---- MODULE Spec2Model ----
(***************************************************************************)
(* Migration offload: the backend registry (start_offloading /             *)
(* stop_offloading over the global `migrator`), the two backends' sysfs    *)
(* control files, the DMA batch engine (dcbm.c) and the multithreaded CPU  *)
(* engine (copy_pages.c).                                                  *)
(*                                                                         *)
(* Three state machines share this module.  Each has its own Init/Next and *)
(* leaves the other machines' variables untouched:                         *)
(*   SpecRegistry  registry + control toggles + module exit + readers      *)
(*   SpecDma       folios_copy_dma_parallel and the DMA hardware           *)
(*   SpecMt        copy_page_lists_mt, its workers and the threads knob    *)
(***************************************************************************)
EXTENDS Integers, Sequences, FiniteSets, TLC

(***************************************************************************)
(* Bounds of the model.                                                    *)
(***************************************************************************)
MaxInstalls == 2        \* descriptor installations followed per behaviour
MaxReaders == 1         \* concurrent host migration calls (readers)
MaxFolios == 3          \* pairs in a batch handed to the DMA engine
MaxChan == 2            \* largest channel count written to nr_dma_chan digit by digit
MaxItems == 3           \* pairs in a batch handed to the CPU engine
MaxThreads == 3         \* largest worker limit written to the threads knob
MaxFolioPages == 2      \* pages of the largest folio
MaxCopyFailures == 1    \* failing item copies per batch
MaxWorkers == 4         \* largest worker limit with which a batch is run

(***************************************************************************)
(* Program constants.                                                      *)
(***************************************************************************)
EAGAIN == 11
ENOMEM == 12
EBUSY == 16
EINVAL == 22
ERANGE == 34
INT_MAX == 2147483647
SizeofInt == 4
MAX_DMA_CHANNELS == 16
MAX_NUM_COPY_THREADS == 64
PAGE_SIZE == 4096
ENOTSUPP == 524
CONFIG_HIGHMEM == FALSE  \* a build without highmem

NULL == "NULL"
NoValue == <<>>        \* no value returned; a returned value v is held as <<v>>
Backends == {"CPU_MT_COPY", "DCBM"}
Readers == 1..MaxReaders

VARIABLES
    \* ---- registry (part_000) ----
    migrator,           \* the global struct migrator: [name, owner]
    dispatch_to_offc,   \* atomic_t dispatch_to_offc
    \* ---- per backend module (copy_pages.c / dcbm.c) ----
    is_dispatching,     \* [Backends -> 0..1], the module-local flag
    migratecfg_mutex,   \* [Backends -> BOOLEAN], the module-local mutex is held
    pc,                 \* [Backends -> position of the thread inside the module]
    loaded,             \* [Backends -> BOOLEAN], module is loaded
    exiting,            \* [Backends -> BOOLEAN], thread runs the module exit routine
    exit_active,        \* [Backends -> BOOLEAN], backend was active when exit began
    sysfs_ret,          \* return value of the last store call
    toggle_log,         \* pr_debug message of the last toggle store, "none" if none
    \* ---- grace-period bookkeeping of the registry ----
    gen,                \* number of installations so far
    cur_gen,            \* installation the active descriptor belongs to, 0 if none
    retired,            \* set of [g, waiting]: removed, destruction deferred
    reclaimed,          \* installations whose deferred-free callback has run
    rd_pc,              \* [Readers -> position of the host migration call]
    rd_cap,             \* [Readers -> installation captured, 0 = built-in]
    fault,              \* a reader transferred through a destroyed descriptor
    \* ---- DMA engine (dcbm.c) ----
    nr_dma_chan,        \* static int nr_dma_chan
    dma_pc,             \* position inside folios_copy_dma_parallel
    folios_cnt_total,   \* number of pairs of the batch
    thread_count,       \* min(thread_count, folios_cnt_total)
    actual_channels,    \* channels acquired
    chan_held,          \* channels requested and not yet released
    chan_works,         \* [0..actual_channels-1 -> [active_transfers, done, issued]]
    channel_idx,        \* round-robin position
    dma_cur,            \* batch position of the pair the submit loop is at, from 0
    dma_i,              \* loop index of the issue / wait loops
    failed,             \* fallback count
    dma_ret,            \* value returned by the call
    outcome,            \* [pair -> what the hardware path did for it]
    pair_chan,          \* [pair -> channel it was attempted on, -1 if none]
    hw_state,           \* [pair -> "none" | "submitted" | "completed"]
    dma_copies,         \* [pair -> number of times the pair was copied]
    dma_via,            \* [pair -> "none" | "hw" | "cpu" | "batch"]
    chan_set_ret,       \* return value of the last nr_dma_chan store
    \* ---- CPU engine (copy_pages.c) ----
    limit_mt_num,       \* unsigned int limit_mt_num
    mt_pc,              \* position inside copy_page_lists_mt
    nr_items,           \* number of pairs of the batch
    folio_pages,        \* [pair -> folio_nr_pages of the pair]
    total_mt_num,       \* worker count captured at entry
    work_items,         \* [cpu -> work descriptor]
    mt_copied,          \* [pair -> set of byte ranges [from, len] copied]
    mt_i,               \* loop index of the flush loop
    mt_err,             \* err, the value returned
    mt_faults,          \* items of this batch whose copy reported a failure
    threads_set_ret     \* return value of the last threads store

regVars == <<migrator, dispatch_to_offc, is_dispatching, migratecfg_mutex, pc,
             loaded, exiting, exit_active, sysfs_ret, toggle_log, gen, cur_gen, retired,
             reclaimed, rd_pc, rd_cap, fault>>

dmaVars == <<nr_dma_chan, dma_pc, folios_cnt_total, thread_count, actual_channels,
             chan_held, chan_works, channel_idx, dma_cur, dma_i, failed, dma_ret,
             outcome, pair_chan, hw_state, dma_copies, dma_via, chan_set_ret>>

mtVars == <<limit_mt_num, mt_pc, nr_items, folio_pages, total_mt_num, work_items,
            mt_copied, mt_i, mt_err, mt_faults, threads_set_ret>>

vars == <<regVars, dmaVars, mtVars>>

(***************************************************************************)
(* kstrtoint / kstrtouint.  A buffer is a sequence of one-character        *)
(* strings.  Base 0: "0x" selects 16, a leading "0" selects 8, otherwise   *)
(* 10; one trailing newline is accepted; anything else is -EINVAL; a value *)
(* that does not fit an int is -ERANGE.  (The buffers of the model are a   *)
(* few characters long, far below the unsigned limit of kstrtouint.)       *)
(***************************************************************************)
DigitVal(c) ==
    CASE c = "0" -> 0 [] c = "1" -> 1 [] c = "2" -> 2 [] c = "3" -> 3
      [] c = "4" -> 4 [] c = "5" -> 5 [] c = "6" -> 6 [] c = "7" -> 7
      [] c = "8" -> 8 [] c = "9" -> 9 [] c = "a" -> 10 [] c = "b" -> 11
      [] c = "c" -> 12 [] c = "d" -> 13 [] c = "e" -> 14 [] c = "f" -> 15
      [] OTHER -> 99

RECURSIVE ParseDigits(_, _, _)
ParseDigits(s, base, acc) ==
    IF s = <<>> THEN acc
    ELSE IF DigitVal(Head(s)) >= base THEN -1
    ELSE ParseDigits(Tail(s), base, acc * base + DigitVal(Head(s)))

StripNewline(s) ==
    IF Len(s) > 0 /\ s[Len(s)] = "\n" THEN SubSeq(s, 1, Len(s) - 1) ELSE s

ParseRadix(s) ==
    IF Len(s) >= 1 /\ s[1] = "0"
    THEN IF Len(s) >= 3 /\ s[2] = "x" /\ DigitVal(s[3]) < 16 THEN 16 ELSE 8
    ELSE 10

\* magnitude of the number in s (no sign), or -1 when s is not a number
ParseUnsigned(s) ==
    LET base == ParseRadix(s)
        body == StripNewline(IF base = 16 THEN SubSeq(s, 3, Len(s)) ELSE s)
    IN  IF body = <<>> THEN -1 ELSE ParseDigits(body, base, 0)

Kstrtoint(buf) ==
    LET neg == Len(buf) > 0 /\ buf[1] = "-"
        signed == Len(buf) > 0 /\ buf[1] \in {"-", "+"}
        mag == ParseUnsigned(IF signed THEN Tail(buf) ELSE buf)
        val == IF neg THEN 0 - mag ELSE mag
    IN  IF mag < 0 THEN [ccode |-> 0 - EINVAL, val |-> 0]
        ELSE IF val > INT_MAX \/ val < 0 - INT_MAX - 1
             THEN [ccode |-> 0 - ERANGE, val |-> 0]
        ELSE [ccode |-> 0, val |-> val]

Kstrtouint(buf) ==
    LET plus == Len(buf) > 0 /\ buf[1] = "+"
        mag == ParseUnsigned(IF plus THEN Tail(buf) ELSE buf)
    IN  IF mag < 0 THEN [ccode |-> 0 - EINVAL, val |-> 0]
        ELSE [ccode |-> 0, val |-> mag]

\* what is written to an offloading toggle
ToggleBufs == { <<"0">>, <<"1">>, <<"1", "\n">>, <<"2">>, <<"-", "1">>, <<"o", "n">> }

(***************************************************************************)
(* Registry: descriptors.                                                  *)
(***************************************************************************)
\* struct migrator migrator = { .name = "kernel", ..., .owner = NULL }
KernelMigrator == [name |-> "kernel", owner |-> NULL]

\* cpu_migrator (copy_pages.c) and dmigrator (dcbm.c): .owner = THIS_MODULE
BackendMigrator(b) == [name |-> b, owner |-> b]

\* a backend descriptor is installed as the active one
ActiveInstalled == migrator.name # "kernel"

\* readers inside their read-side critical section
ReadersInCS == {r \in Readers : rd_pc[r] \in {"cs", "xfer"}}

\* faulty variant: destruction that waits for no reader: a synchronous free
GracePeriodReaders_Nobody == {}

\* the readers a deferred destruction scheduled now has to wait for
GracePeriodReaders == ReadersInCS

\* atomic_try_cmpxchg(&dispatch_to_offc, &old, new)
AtomicTryCmpxchg(cur, old, new) == IF cur = old THEN new ELSE cur

(***************************************************************************)
(* offc_update_migrator(mig): under migrator_mut, publish mig (or the      *)
(* built-in descriptor when mig is NULL) as the active descriptor; when a  *)
(* descriptor is removed, schedule its deferred destruction for after the  *)
(* grace period.  The whole body runs under the writer lock, so it is one  *)
(* step.                                                                   *)
(***************************************************************************)
OffcUpdateMigrator(mig) ==
    /\ migrator' = IF mig = NULL THEN KernelMigrator ELSE BackendMigrator(mig)
    /\ IF mig = NULL
       THEN /\ cur_gen' = 0
            /\ gen' = gen
            /\ retired' = IF cur_gen = 0 THEN retired
                          ELSE retired \cup {[g |-> cur_gen,
                                              waiting |-> GracePeriodReaders]}
       ELSE /\ gen' = gen + 1
            /\ cur_gen' = gen + 1
            /\ retired' = retired

\* installations already begun but not yet published
StartsInProgress == Cardinality({b \in Backends : pc[b] = "start_update"})

\* faulty variant: a switch that does not look at is_dispatching
OffloadingSwitch_Unconditional(action, dispatching) ==
    IF action = 0 THEN "stop_offloading"
    ELSE IF action = 1 THEN "start_offloading"
    ELSE "input should be zero or one"

\* switch (action) of offloading_set / mt_offloading_set: the call made, or
\* the pr_debug message when none is made
OffloadingSwitch(action, dispatching) ==
    IF action = 0
    THEN IF dispatching = 1 THEN "stop_offloading"
         ELSE "migration offloading is already OFF"
    ELSE IF action = 1
    THEN IF dispatching = 0 THEN "start_offloading"
         ELSE "migration offloading is already ON"
    ELSE "input should be zero or one"

(***************************************************************************)
(* offloading_set / mt_offloading_set: parse, then under the module's      *)
(* migratecfg_mutex compare is_dispatching and enter start_offloading or   *)
(* stop_offloading.                                                        *)
(***************************************************************************)
OffloadingSet(b, buf) ==
    LET p == Kstrtoint(buf)
        branch == OffloadingSwitch(p.val, is_dispatching[b])
    IN
    /\ pc[b] = "idle" /\ loaded[b] /\ ~migratecfg_mutex[b]
    /\ IF p.ccode # 0
       THEN /\ sysfs_ret' = p.ccode
            /\ toggle_log' = "error parsing input"
            /\ UNCHANGED <<pc, migratecfg_mutex>>
       ELSE /\ sysfs_ret' = SizeofInt
            /\ IF branch = "stop_offloading"
               THEN /\ pc' = [pc EXCEPT ![b] = "stop_update"]
                    /\ migratecfg_mutex' = [migratecfg_mutex EXCEPT ![b] = TRUE]
                    /\ toggle_log' = "none"
               ELSE IF branch = "start_offloading"
               THEN /\ gen + StartsInProgress < MaxInstalls
                    /\ pc' = [pc EXCEPT ![b] = "start_update"]
                    /\ migratecfg_mutex' = [migratecfg_mutex EXCEPT ![b] = TRUE]
                    /\ toggle_log' = "none"
               ELSE /\ toggle_log' = branch
                    /\ UNCHANGED <<pc, migratecfg_mutex>>
    /\ UNCHANGED <<migrator, dispatch_to_offc, is_dispatching, loaded, exiting,
                   exit_active, gen, cur_gen, retired, reclaimed, rd_pc, rd_cap,
                   fault,
                   dmaVars, mtVars>>

\* start_offloading(m), first half: offc_update_migrator(m)
StartOffloadingUpdate(b) ==
    /\ pc[b] = "start_update"
    /\ OffcUpdateMigrator(b)
    /\ pc' = [pc EXCEPT ![b] = "start_cmpxchg"]
    /\ UNCHANGED <<dispatch_to_offc, is_dispatching, migratecfg_mutex, loaded,
                   exiting, exit_active, sysfs_ret, toggle_log, reclaimed, rd_pc, rd_cap,
                   fault,
                   dmaVars, mtVars>>

\* start_offloading(m), second half: atomic_try_cmpxchg(&dispatch_to_offc, 0, 1)
StartOffloadingCmpxchg(b) ==
    /\ pc[b] = "start_cmpxchg"
    /\ dispatch_to_offc' = AtomicTryCmpxchg(dispatch_to_offc, 0, 1)
    /\ pc' = [pc EXCEPT ![b] = "start_set"]
    /\ UNCHANGED <<migrator, is_dispatching, migratecfg_mutex, loaded, exiting,
                   exit_active, sysfs_ret, toggle_log, gen, cur_gen, retired, reclaimed,
                   rd_pc, rd_cap, fault,
                   dmaVars, mtVars>>

\* is_dispatching = 1; mutex_unlock(&migratecfg_mutex)
StartSetDispatching(b) ==
    /\ pc[b] = "start_set"
    /\ is_dispatching' = [is_dispatching EXCEPT ![b] = 1]
    /\ migratecfg_mutex' = [migratecfg_mutex EXCEPT ![b] = FALSE]
    /\ pc' = [pc EXCEPT ![b] = "idle"]
    /\ UNCHANGED <<migrator, dispatch_to_offc, loaded, exiting, exit_active,
                   sysfs_ret, toggle_log, gen, cur_gen, retired, reclaimed, rd_pc, rd_cap,
                   fault,
                   dmaVars, mtVars>>

\* stop_offloading(), first half: offc_update_migrator(NULL)
StopOffloadingUpdate(b) ==
    /\ pc[b] = "stop_update"
    /\ OffcUpdateMigrator(NULL)
    /\ pc' = [pc EXCEPT ![b] = "stop_cmpxchg"]
    /\ UNCHANGED <<dispatch_to_offc, is_dispatching, migratecfg_mutex, loaded,
                   exiting, exit_active, sysfs_ret, toggle_log, reclaimed, rd_pc, rd_cap,
                   fault,
                   dmaVars, mtVars>>

\* stop_offloading(), second half: atomic_try_cmpxchg(&dispatch_to_offc, 1, 0)
StopOffloadingCmpxchg(b) ==
    /\ pc[b] = "stop_cmpxchg"
    /\ dispatch_to_offc' = AtomicTryCmpxchg(dispatch_to_offc, 1, 0)
    /\ pc' = [pc EXCEPT ![b] = "stop_set"]
    /\ UNCHANGED <<migrator, is_dispatching, migratecfg_mutex, loaded, exiting,
                   exit_active, sysfs_ret, toggle_log, gen, cur_gen, retired, reclaimed,
                   rd_pc, rd_cap, fault,
                   dmaVars, mtVars>>

\* is_dispatching = 0; mutex_unlock(&migratecfg_mutex)
StopSetDispatching(b) ==
    /\ pc[b] = "stop_set"
    /\ is_dispatching' = [is_dispatching EXCEPT ![b] = 0]
    /\ migratecfg_mutex' = [migratecfg_mutex EXCEPT ![b] = FALSE]
    /\ pc' = [pc EXCEPT ![b] = IF exiting[b] THEN "exit_remove" ELSE "idle"]
    /\ UNCHANGED <<migrator, dispatch_to_offc, loaded, exiting, exit_active,
                   sysfs_ret, toggle_log, gen, cur_gen, retired, reclaimed, rd_pc, rd_cap,
                   fault,
                   dmaVars, mtVars>>

(***************************************************************************)
(* Module exit routines.                                                   *)
(***************************************************************************)
\* cpu_mt_module_exit: mutex_lock; if (is_dispatching == 1) stop_offloading ...
CpuMtModuleExit ==
    LET b == "CPU_MT_COPY" IN
    /\ pc[b] = "idle" /\ loaded[b] /\ ~migratecfg_mutex[b]
    /\ exiting' = [exiting EXCEPT ![b] = TRUE]
    /\ exit_active' = [exit_active EXCEPT ![b] = (migrator.name = b)]
    /\ IF is_dispatching[b] = 1
       THEN /\ pc' = [pc EXCEPT ![b] = "stop_update"]
            /\ migratecfg_mutex' = [migratecfg_mutex EXCEPT ![b] = TRUE]
       ELSE /\ pc' = [pc EXCEPT ![b] = "exit_remove"]
            /\ UNCHANGED migratecfg_mutex
    /\ UNCHANGED <<migrator, dispatch_to_offc, is_dispatching, loaded, sysfs_ret, toggle_log,
                   gen, cur_gen, retired, reclaimed, rd_pc, rd_cap, fault,
                   dmaVars, mtVars>>

\* dma_module_exit: only the sysfs files and the kobject are removed
DmaModuleExit ==
    LET b == "DCBM" IN
    /\ pc[b] = "idle" /\ loaded[b] /\ ~migratecfg_mutex[b]
    /\ exiting' = [exiting EXCEPT ![b] = TRUE]
    /\ exit_active' = [exit_active EXCEPT ![b] = (migrator.name = b)]
    /\ pc' = [pc EXCEPT ![b] = "exit_remove"]
    /\ UNCHANGED <<migrator, dispatch_to_offc, is_dispatching, migratecfg_mutex,
                   loaded, sysfs_ret, toggle_log, gen, cur_gen, retired, reclaimed, rd_pc,
                   rd_cap, fault,
                   dmaVars, mtVars>>

\* sysfs_remove_file ...; kobject_put; the exit routine returns
ModuleExitReturn(b) ==
    /\ pc[b] = "exit_remove"
    /\ loaded' = [loaded EXCEPT ![b] = FALSE]
    /\ pc' = [pc EXCEPT ![b] = "unloaded"]
    /\ UNCHANGED <<migrator, dispatch_to_offc, is_dispatching, migratecfg_mutex,
                   exiting, exit_active, sysfs_ret, toggle_log, gen, cur_gen, retired,
                   reclaimed, rd_pc, rd_cap, fault,
                   dmaVars, mtVars>>

(***************************************************************************)
(* Readers: a host migration call that saw the dispatch flag set enters    *)
(* its read-side critical section, captures the active descriptor,         *)
(* transfers the batch through it and leaves the critical section.         *)
(***************************************************************************)
ReaderCheck(r) ==
    /\ rd_pc[r] = "out"
    /\ dispatch_to_offc = 1
    /\ rd_pc' = [rd_pc EXCEPT ![r] = "checked"]
    /\ UNCHANGED <<migrator, dispatch_to_offc, is_dispatching, migratecfg_mutex,
                   pc, loaded, exiting, exit_active, sysfs_ret, toggle_log, gen, cur_gen,
                   retired, reclaimed, rd_cap, fault,
                   dmaVars, mtVars>>

ReaderEnter(r) ==
    /\ rd_pc[r] = "checked"
    /\ rd_pc' = [rd_pc EXCEPT ![r] = "cs"]
    /\ rd_cap' = [rd_cap EXCEPT ![r] = cur_gen]
    /\ UNCHANGED <<migrator, dispatch_to_offc, is_dispatching, migratecfg_mutex,
                   pc, loaded, exiting, exit_active, sysfs_ret, toggle_log, gen, cur_gen,
                   retired, reclaimed, fault,
                   dmaVars, mtVars>>

ReaderTransfer(r) ==
    /\ rd_pc[r] = "cs"
    /\ rd_pc' = [rd_pc EXCEPT ![r] = "xfer"]
    /\ fault' = (fault \/ rd_cap[r] \in reclaimed)
    /\ UNCHANGED <<migrator, dispatch_to_offc, is_dispatching, migratecfg_mutex,
                   pc, loaded, exiting, exit_active, sysfs_ret, toggle_log, gen, cur_gen,
                   retired, reclaimed, rd_cap,
                   dmaVars, mtVars>>

ReaderExit(r) ==
    /\ rd_pc[r] = "xfer"
    /\ rd_pc' = [rd_pc EXCEPT ![r] = "out"]
    /\ rd_cap' = [rd_cap EXCEPT ![r] = 0]
    /\ retired' = {[g |-> e.g, waiting |-> e.waiting \ {r}] : e \in retired}
    /\ UNCHANGED <<migrator, dispatch_to_offc, is_dispatching, migratecfg_mutex,
                   pc, loaded, exiting, exit_active, sysfs_ret, toggle_log, gen, cur_gen,
                   reclaimed, fault,
                   dmaVars, mtVars>>

\* srcu_mig_cb: the deferred-free callback of a removed descriptor, run once
\* every reader its grace period waits for has left
SrcuMigCb ==
    /\ \E e \in retired :
          /\ e.waiting = {}
          /\ retired' = retired \ {e}
          /\ reclaimed' = reclaimed \cup {e.g}
    /\ UNCHANGED <<migrator, dispatch_to_offc, is_dispatching, migratecfg_mutex,
                   pc, loaded, exiting, exit_active, sysfs_ret, toggle_log, gen, cur_gen,
                   rd_pc, rd_cap, fault,
                   dmaVars, mtVars>>

InitRegistry ==
    /\ migrator = KernelMigrator
    /\ dispatch_to_offc = 0
    /\ is_dispatching = [b \in Backends |-> 0]
    /\ migratecfg_mutex = [b \in Backends |-> FALSE]
    /\ pc = [b \in Backends |-> "idle"]
    /\ loaded = [b \in Backends |-> TRUE]
    /\ exiting = [b \in Backends |-> FALSE]
    /\ exit_active = [b \in Backends |-> FALSE]
    /\ sysfs_ret = 0
    /\ toggle_log = "none"
    /\ gen = 0
    /\ cur_gen = 0
    /\ retired = {}
    /\ reclaimed = {}
    /\ rd_pc = [r \in Readers |-> "out"]
    /\ rd_cap = [r \in Readers |-> 0]
    /\ fault = FALSE

\* the control files and the module exit routines
NextControl ==
    \/ \E b \in Backends, buf \in ToggleBufs : OffloadingSet(b, buf)
    \/ \E b \in Backends : StartOffloadingUpdate(b)
    \/ \E b \in Backends : StartOffloadingCmpxchg(b)
    \/ \E b \in Backends : StartSetDispatching(b)
    \/ \E b \in Backends : StopOffloadingUpdate(b)
    \/ \E b \in Backends : StopOffloadingCmpxchg(b)
    \/ \E b \in Backends : StopSetDispatching(b)
    \/ CpuMtModuleExit
    \/ DmaModuleExit
    \/ \E b \in Backends : ModuleExitReturn(b)

NextRegistry ==
    \/ NextControl
    \/ \E r \in Readers : ReaderCheck(r)
    \/ \E r \in Readers : ReaderEnter(r)
    \/ \E r \in Readers : ReaderTransfer(r)
    \/ \E r \in Readers : ReaderExit(r)
    \/ SrcuMigCb


(***************************************************************************)
(* DMA engine (dcbm.c).                                                    *)
(***************************************************************************)
\* faulty variant: no clamp, the first argument as it is
Min_Unclamped(a, b) == a

Min(a, b) == IF a < b THEN a ELSE b

DigitStr == <<"0", "1", "2", "3", "4", "5", "6", "7", "8", "9">>

\* what is written to nr_dma_chan
ChanBufs == {<<DigitStr[n + 1]>> : n \in 0..MaxChan}
            \cup {<<"1", "6">>, <<"1", "7">>, <<"-", "1">>, <<"x">>}

\* what the hardware path does for one pair: the first step that fails, or "ok"
PairOutcomes == {"src_map", "dst_map", "prep", "submit", "ok"}

Pairs == 0..(folios_cnt_total - 1)
Channels == 0..(actual_channels - 1)

\* nr_dma_chan_set
NrDmaChanSet(buf) ==
    LET p == Kstrtoint(buf) IN
    /\ IF p.ccode # 0
       THEN chan_set_ret' = p.ccode /\ UNCHANGED nr_dma_chan
       ELSE IF p.val < 1
       THEN chan_set_ret' = 0 - EINVAL /\ UNCHANGED nr_dma_chan
       ELSE /\ nr_dma_chan' = IF p.val >= MAX_DMA_CHANNELS
                              THEN MAX_DMA_CHANNELS ELSE p.val
            /\ chan_set_ret' = SizeofInt
    /\ UNCHANGED <<dma_pc, folios_cnt_total, thread_count, actual_channels,
                   chan_held, chan_works, channel_idx, dma_cur, dma_i, failed,
                   dma_ret, outcome, pair_chan, hw_state, dma_copies, dma_via,
                   regVars, mtVars>>

\* folios_dma_completion_callback, on one Channel Work record
FoliosDmaCompletionCallback(w) ==
    LET a == w.active_transfers - 1 IN
    [w EXCEPT !.active_transfers = a,
              !.done = IF a = 0 THEN w.done + 1 ELSE w.done]

\* faulty variant: a submit error that leaves the in-flight counter incremented
ProcessFolioDmaTransfer_NoUndo(active, o) ==
    IF o \in {"src_map", "dst_map"} THEN [ret |-> 0 - ENOMEM, active |-> active]
    ELSE IF o = "prep" THEN [ret |-> 0 - EBUSY, active |-> active]
    ELSE IF o = "submit" THEN [ret |-> 0 - EINVAL, active |-> active + 1]
    ELSE [ret |-> 0, active |-> active + 1]

\* process_folio_dma_transfer: the return value and the channel's in-flight
\* counter afterwards, given the counter before and what the hardware does
ProcessFolioDmaTransfer(active, o) ==
    IF o \in {"src_map", "dst_map"} THEN [ret |-> 0 - ENOMEM, active |-> active]
    ELSE IF o = "prep" THEN [ret |-> 0 - EBUSY, active |-> active]
    ELSE LET incremented == active + 1 IN
         IF o = "submit" THEN [ret |-> 0 - EINVAL, active |-> incremented - 1]
         ELSE [ret |-> 0, active |-> incremented]

\* faulty variant: a call that reports its fallbacks as an error
DmaReturnValue_Propagate(nfailed) == IF nfailed > 0 THEN 0 - EINVAL ELSE 0

\* the value folios_copy_dma_parallel returns after the release loop
DmaReturnValue(nfailed) == 0

\* faulty variant: a fallback that returns without copying the batch
FoliosCopy_Skipped ==
    /\ dma_copies' = dma_copies
    /\ dma_via' = dma_via

\* folios_copy(dst_list, src_list, folios_cnt_total): the ordinary copy path
\* over the whole batch
FoliosCopy ==
    /\ dma_copies' = [j \in Pairs |-> dma_copies[j] + 1]
    /\ dma_via' = [j \in Pairs |-> "batch"]

\* folios_copy_dma: entry of the call with the configured channel count
FoliosCopyDma(n) ==
    /\ dma_pc = "idle"
    /\ dma_pc' = "alloc_channels"
    /\ folios_cnt_total' = n
    /\ thread_count' = Min(nr_dma_chan, n)
    /\ actual_channels' = 0
    /\ channel_idx' = 0
    /\ failed' = 0
    /\ dma_cur' = 0
    /\ dma_i' = 0
    /\ outcome' = [j \in 0..(n - 1) |-> "none"]
    /\ pair_chan' = [j \in 0..(n - 1) |-> -1]
    /\ hw_state' = [j \in 0..(n - 1) |-> "none"]
    /\ dma_copies' = [j \in 0..(n - 1) |-> 0]
    /\ dma_via' = [j \in 0..(n - 1) |-> "none"]
    /\ UNCHANGED <<nr_dma_chan, chan_held, chan_works, dma_ret, chan_set_ret,
                   regVars, mtVars>>

\* channels = kmalloc_array(thread_count, ...)
DmaAllocChannels(ok) ==
    /\ dma_pc = "alloc_channels"
    /\ IF ok
       THEN /\ dma_pc' = "request"
            /\ UNCHANGED <<dma_copies, dma_via, dma_ret>>
       ELSE /\ FoliosCopy
            /\ dma_ret' = <<0>>
            /\ dma_pc' = "done"
    /\ UNCHANGED <<nr_dma_chan, folios_cnt_total, thread_count, actual_channels,
                   chan_held, chan_works, channel_idx, dma_cur, dma_i, failed,
                   outcome, pair_chan, hw_state, chan_set_ret, regVars, mtVars>>

\* the dma_request_channel loop: the hardware grants k channels and refuses
\* the next one (or all thread_count are granted)
DmaRequestChannels(k) ==
    /\ dma_pc = "request"
    /\ k \in 0..thread_count
    /\ actual_channels' = k
    /\ IF k = 0
       THEN /\ FoliosCopy
            /\ chan_held' = 0
            /\ dma_ret' = <<0>>
            /\ dma_pc' = "done"
       ELSE /\ chan_held' = k
            /\ dma_pc' = "alloc_works"
            /\ UNCHANGED <<dma_copies, dma_via, dma_ret>>
    /\ UNCHANGED <<nr_dma_chan, folios_cnt_total, thread_count, chan_works,
                   channel_idx, dma_cur, dma_i, failed, outcome, pair_chan,
                   hw_state, chan_set_ret, regVars, mtVars>>

\* chan_works = kmalloc_array(actual_channels, ...) and the initialisation loop
DmaAllocWorks(ok) ==
    /\ dma_pc = "alloc_works"
    /\ IF ok
       THEN /\ chan_works' = [c \in Channels |->
                                [active_transfers |-> 0, done |-> 0, issued |-> FALSE]]
            /\ dma_pc' = "submit"
            /\ UNCHANGED <<chan_held, dma_copies, dma_via, dma_ret>>
       ELSE /\ chan_held' = 0
            /\ FoliosCopy
            /\ dma_ret' = <<0>>
            /\ dma_pc' = "done"
            /\ UNCHANGED chan_works
    /\ UNCHANGED <<nr_dma_chan, folios_cnt_total, thread_count, actual_channels,
                   channel_idx, dma_cur, dma_i, failed, outcome, pair_chan,
                   hw_state, chan_set_ret, regVars, mtVars>>

\* STEP 1, one iteration: process_folio_dma_transfer on the pair at dma_cur,
\* folio_copy and failed++ when it returns an error, then the round-robin step
DmaSubmit(o) ==
    LET c == channel_idx
        r == ProcessFolioDmaTransfer(chan_works[c].active_transfers, o)
    IN
    /\ dma_pc = "submit"
    /\ outcome' = [outcome EXCEPT ![dma_cur] = o]
    /\ pair_chan' = [pair_chan EXCEPT ![dma_cur] = c]
    /\ chan_works' = [chan_works EXCEPT ![c].active_transfers = r.active]
    /\ IF r.ret # 0
       THEN /\ dma_copies' = [dma_copies EXCEPT ![dma_cur] = @ + 1]
            /\ dma_via' = [dma_via EXCEPT ![dma_cur] = "cpu"]
            /\ failed' = failed + 1
            /\ UNCHANGED hw_state
       ELSE /\ hw_state' = [hw_state EXCEPT ![dma_cur] = "submitted"]
            /\ dma_via' = [dma_via EXCEPT ![dma_cur] = "hw"]
            /\ UNCHANGED <<dma_copies, failed>>
    /\ channel_idx' = (channel_idx + 1) % actual_channels
    /\ dma_cur' = dma_cur + 1
    /\ dma_pc' = IF dma_cur + 1 = folios_cnt_total THEN "issue" ELSE "submit"
    /\ UNCHANGED <<nr_dma_chan, folios_cnt_total, thread_count, actual_channels,
                   chan_held, dma_i, dma_ret, chan_set_ret, regVars, mtVars>>

\* STEP 2, one iteration: dma_async_issue_pending(chan_works[i].chan)
DmaIssuePending ==
    /\ dma_pc = "issue"
    /\ chan_works' = [chan_works EXCEPT ![dma_i].issued = TRUE]
    /\ IF dma_i + 1 = actual_channels
       THEN dma_i' = 0 /\ dma_pc' = "wait"
       ELSE dma_i' = dma_i + 1 /\ UNCHANGED dma_pc
    /\ UNCHANGED <<nr_dma_chan, folios_cnt_total, thread_count, actual_channels,
                   chan_held, channel_idx, dma_cur, failed, dma_ret, outcome,
                   pair_chan, hw_state, dma_copies, dma_via, chan_set_ret,
                   regVars, mtVars>>

\* STEP 3, one iteration: wait_for_completion(&chan_works[i].done)
DmaWaitForCompletion ==
    /\ dma_pc = "wait"
    /\ chan_works[dma_i].done > 0
    /\ chan_works' = [chan_works EXCEPT ![dma_i].done = @ - 1]
    /\ IF dma_i + 1 = actual_channels
       THEN dma_i' = 0 /\ dma_pc' = "release"
       ELSE dma_i' = dma_i + 1 /\ UNCHANGED dma_pc
    /\ UNCHANGED <<nr_dma_chan, folios_cnt_total, thread_count, actual_channels,
                   chan_held, channel_idx, dma_cur, failed, dma_ret, outcome,
                   pair_chan, hw_state, dma_copies, dma_via, chan_set_ret,
                   regVars, mtVars>>

\* the release loop, kfree(chan_works), kfree(channels), return
DmaRelease ==
    /\ dma_pc = "release"
    /\ chan_held' = 0
    /\ dma_ret' = <<DmaReturnValue(failed)>>
    /\ dma_pc' = "done"
    /\ UNCHANGED <<nr_dma_chan, folios_cnt_total, thread_count, actual_channels,
                   chan_works, channel_idx, dma_cur, dma_i, failed, outcome,
                   pair_chan, hw_state, dma_copies, dma_via, chan_set_ret,
                   regVars, mtVars>>

\* the caller takes the result; the call's locals are gone
DmaReturn ==
    /\ dma_pc = "done"
    /\ dma_pc' = "idle"
    /\ folios_cnt_total' = 0
    /\ thread_count' = 0
    /\ actual_channels' = 0
    /\ chan_works' = <<>>
    /\ channel_idx' = 0
    /\ dma_cur' = 0
    /\ dma_i' = 0
    /\ failed' = 0
    /\ dma_ret' = NoValue
    /\ outcome' = <<>>
    /\ pair_chan' = <<>>
    /\ hw_state' = <<>>
    /\ dma_copies' = <<>>
    /\ dma_via' = <<>>
    /\ UNCHANGED <<nr_dma_chan, chan_held, chan_set_ret, regVars, mtVars>>

\* the hardware finishes a submitted transfer of a channel whose pending
\* queue was issued: the pair is copied and the completion callback runs
HwComplete(j) ==
    /\ dma_pc \in {"issue", "wait", "release", "done"}
    /\ j \in Pairs
    /\ hw_state[j] = "submitted"
    /\ chan_works[pair_chan[j]].issued
    /\ hw_state' = [hw_state EXCEPT ![j] = "completed"]
    /\ dma_copies' = [dma_copies EXCEPT ![j] = @ + 1]
    /\ chan_works' = [chan_works EXCEPT
                        ![pair_chan[j]] = FoliosDmaCompletionCallback(@)]
    /\ UNCHANGED <<nr_dma_chan, dma_pc, folios_cnt_total, thread_count,
                   actual_channels, chan_held, channel_idx, dma_cur, dma_i,
                   failed, dma_ret, outcome, pair_chan, dma_via, chan_set_ret,
                   regVars, mtVars>>

\* the same on a channel whose pending queue was not issued yet: a driver
\* that hands a descriptor to the hardware when tx_submit is called, so that
\* the completion callback can run while STEP 1 is still submitting
HwCompleteUnissued(j) ==
    /\ dma_pc \in {"submit", "issue", "wait", "release", "done"}
    /\ j \in Pairs
    /\ hw_state[j] = "submitted"
    /\ ~chan_works[pair_chan[j]].issued
    /\ hw_state' = [hw_state EXCEPT ![j] = "completed"]
    /\ dma_copies' = [dma_copies EXCEPT ![j] = @ + 1]
    /\ chan_works' = [chan_works EXCEPT
                        ![pair_chan[j]] = FoliosDmaCompletionCallback(@)]
    /\ UNCHANGED <<nr_dma_chan, dma_pc, folios_cnt_total, thread_count,
                   actual_channels, chan_held, channel_idx, dma_cur, dma_i,
                   failed, dma_ret, outcome, pair_chan, dma_via, chan_set_ret,
                   regVars, mtVars>>

InitDma ==
    /\ nr_dma_chan = 1
    /\ dma_pc = "idle"
    /\ folios_cnt_total = 0
    /\ thread_count = 0
    /\ actual_channels = 0
    /\ chan_held = 0
    /\ chan_works = <<>>
    /\ channel_idx = 0
    /\ dma_cur = 0
    /\ dma_i = 0
    /\ failed = 0
    /\ dma_ret = NoValue
    /\ outcome = <<>>
    /\ pair_chan = <<>>
    /\ hw_state = <<>>
    /\ dma_copies = <<>>
    /\ dma_via = <<>>
    /\ chan_set_ret = 0

\* the steps of folios_copy_dma_parallel between entry and return
DmaEngineStep ==
    \/ \E ok \in BOOLEAN : DmaAllocChannels(ok)
    \/ \E k \in 0..thread_count : DmaRequestChannels(k)
    \/ \E ok \in BOOLEAN : DmaAllocWorks(ok)
    \/ \E o \in PairOutcomes : DmaSubmit(o)
    \/ DmaIssuePending
    \/ DmaWaitForCompletion
    \/ DmaRelease

NextDma ==
    \/ \E buf \in ChanBufs : NrDmaChanSet(buf)
    \/ \E n \in 0..MaxFolios : FoliosCopyDma(n)
    \/ \E ok \in BOOLEAN : DmaAllocChannels(ok)
    \/ \E k \in 0..thread_count : DmaRequestChannels(k)
    \/ \E ok \in BOOLEAN : DmaAllocWorks(ok)
    \/ \E o \in PairOutcomes : DmaSubmit(o)
    \/ DmaIssuePending
    \/ DmaWaitForCompletion
    \/ DmaRelease
    \/ DmaReturn
    \/ \E j \in Pairs : HwComplete(j)

\* the DMA engine on any DMA_MEMCPY provider: one that starts transfers at
\* dma_async_issue_pending, or one that starts them at tx_submit
NextDmaAnyProvider ==
    \/ NextDma
    \/ \E j \in Pairs : HwCompleteUnissued(j)

(***************************************************************************)
(* CPU engine (copy_pages.c).                                              *)
(***************************************************************************)
\* what is written to the threads knob
ThreadBufs == {<<DigitStr[n + 1]>> : n \in 0..MaxThreads}
              \cup {<<"6", "4">>, <<"6", "5">>, <<"-", "1">>, <<"x">>}

\* the batches handed to the engine: n folios, all of p pages, or of 1, 2, ...
\* pages in turn
FolioPageChoices(n) ==
    {[j \in 0..(n - 1) |-> p] : p \in 1..MaxFolioPages}
    \cup {[j \in 0..(n - 1) |-> 1 + (j % MaxFolioPages)]}

Workers == 0..(total_mt_num - 1)

\* work_items[cpu] before kzalloc
NullWork == [alloc |-> "null", work |-> "none", ret |-> 0, num_items |-> 0,
             item_list |-> <<>>]

\* faulty variant: a store that checks only the lower end of the range
MtThreadsSet_NoUpperBound(buf) ==
    LET p == Kstrtouint(buf) IN
    /\ IF p.ccode # 0
       THEN threads_set_ret' = p.ccode /\ UNCHANGED limit_mt_num
       ELSE IF p.val > 0
       THEN limit_mt_num' = p.val /\ threads_set_ret' = Len(buf)
       ELSE threads_set_ret' = 0 - EINVAL /\ UNCHANGED limit_mt_num
    /\ UNCHANGED <<mt_pc, nr_items, folio_pages, total_mt_num, work_items,
                   mt_copied, mt_i, mt_err, mt_faults, regVars, dmaVars>>

\* mt_threads_set
MtThreadsSet(buf) ==
    LET p == Kstrtouint(buf) IN
    /\ IF p.ccode # 0
       THEN threads_set_ret' = p.ccode /\ UNCHANGED limit_mt_num
       ELSE IF p.val > 0 /\ p.val <= MAX_NUM_COPY_THREADS
       THEN limit_mt_num' = p.val /\ threads_set_ret' = Len(buf)
       ELSE threads_set_ret' = 0 - EINVAL /\ UNCHANGED limit_mt_num
    /\ UNCHANGED <<mt_pc, nr_items, folio_pages, total_mt_num, work_items,
                   mt_copied, mt_i, mt_err, mt_faults, regVars, dmaVars>>

\* copy_page_lists_mt, entry: total_mt_num = limit_mt_num, clamped
CopyPageListsMt(n, pages) ==
    /\ mt_pc = "idle"
    /\ limit_mt_num <= MaxWorkers
    /\ nr_items' = n
    /\ folio_pages' = pages
    /\ mt_faults' = 0
    /\ mt_i' = 0
    /\ mt_copied' = [j \in 0..(n - 1) |-> {}]
    /\ IF CONFIG_HIGHMEM
       THEN /\ mt_err' = 0 - ENOTSUPP
            /\ mt_pc' = "done"
            /\ total_mt_num' = 0
            /\ work_items' = <<>>
       ELSE /\ mt_err' = 0
            /\ mt_pc' = "alloc"
            /\ total_mt_num' = Min(limit_mt_num, MAX_NUM_COPY_THREADS)
            /\ work_items' = [cpu \in 0..(Min(limit_mt_num, MAX_NUM_COPY_THREADS) - 1)
                                |-> NullWork]
    /\ UNCHANGED <<limit_mt_num, threads_set_ret, regVars, dmaVars>>

\* the kzalloc loop: the first k allocations succeed; k < total_mt_num means
\* the allocation for cpu k fails
MtAllocWorkItems(k) ==
    /\ mt_pc = "alloc"
    /\ k \in 0..total_mt_num
    /\ work_items' = [cpu \in Workers |->
                        IF cpu < k THEN [NullWork EXCEPT !.alloc = "live"]
                        ELSE NullWork]
    /\ IF k < total_mt_num
       THEN mt_err' = 0 - ENOMEM /\ mt_pc' = "free"
       ELSE mt_pc' = "dispatch" /\ UNCHANGED mt_err
    /\ UNCHANGED <<limit_mt_num, nr_items, folio_pages, total_mt_num, mt_copied,
                   mt_i, mt_faults, threads_set_ret, regVars, dmaVars>>

\* faulty variant: a chunk size that ignores the number of pages of the folio
ChunkSize_OnePage(j) == PAGE_SIZE \div total_mt_num

\* Policy A: chunk_size = PAGE_SIZE * folio_nr_pages(src) / total_mt_num
ChunkSize(j) == (PAGE_SIZE * folio_pages[j]) \div total_mt_num

\* Policy A: every worker gets the cpu-th chunk of every pair, then all
\* workers are queued
PolicyA(w) ==
    [cpu \in Workers |->
        [w[cpu] EXCEPT
            !.work = "queued",
            !.num_items = nr_items,
            !.item_list = [k \in 1..nr_items |->
                              [pair |-> k - 1,
                               from |-> ChunkSize(k - 1) * cpu,
                               len |-> ChunkSize(k - 1)]]]]

\* faulty variant: every worker sized by the rounded-up quotient
NumXfer_RoundedUp(cpu) ==
    (nr_items \div total_mt_num) + (IF nr_items % total_mt_num # 0 THEN 1 ELSE 0)

\* Policy B: num_items of worker cpu
NumXfer(cpu) ==
    (nr_items \div total_mt_num) + (IF cpu < nr_items % total_mt_num THEN 1 ELSE 0)

\* Policy B: the loop over the folio lists, from pair j on, filling worker cpu
\* and queueing it once it holds num_items items
RECURSIVE PolicyBLoop(_, _, _)
PolicyBLoop(j, cpu, w) ==
    IF j = nr_items THEN w
    ELSE LET item == [pair |-> j, from |-> 0, len |-> PAGE_SIZE * folio_pages[j]]
             filled == [w EXCEPT ![cpu].item_list = Append(@, item)]
             full == Len(filled[cpu].item_list) = filled[cpu].num_items
         IN  IF full
             THEN PolicyBLoop(j + 1, cpu + 1, [filled EXCEPT ![cpu].work = "queued"])
             ELSE PolicyBLoop(j + 1, cpu, filled)

PolicyB(w) ==
    PolicyBLoop(0, 0, [cpu \in Workers |->
                          [w[cpu] EXCEPT !.work = "init", !.num_items = NumXfer(cpu)]])

\* the partitioning and queueing part of copy_page_lists_mt
MtDispatch ==
    /\ mt_pc = "dispatch"
    /\ work_items' = IF nr_items < total_mt_num THEN PolicyA(work_items)
                     ELSE PolicyB(work_items)
    /\ mt_pc' = "flush"
    /\ UNCHANGED <<limit_mt_num, nr_items, folio_pages, total_mt_num, mt_copied,
                   mt_i, mt_err, mt_faults, threads_set_ret, regVars, dmaVars>>

\* faulty variant: ret = !!copy(...): each item overwrites the flag
WorkRetLoop_Overwrite(i, n, failing, ret) ==
    IF n = 0 THEN ret ELSE IF n \in failing THEN 1 ELSE 0

\* copy_page_work_queue_thread: my_work->ret after items i..n, where the
\* copies of the items in `failing` return nonzero
RECURSIVE WorkRetLoop(_, _, _, _)
WorkRetLoop(i, n, failing, ret) ==
    IF i > n THEN ret
    ELSE WorkRetLoop(i + 1, n, failing, IF ret # 0 \/ i \in failing THEN 1 ELSE 0)

\* the byte ranges of pair j that the items of w outside `failing` copy
RangesCopied(w, failing, j) ==
    {[from |-> w.item_list[i].from, len |-> w.item_list[i].len] :
        i \in {k \in 1..w.num_items : k \notin failing /\ w.item_list[k].pair = j}}

\* the workqueue takes a queued work item off its list and starts
\* copy_page_work_queue_thread on it: my_work->ret = 0
WorkerStart(cpu) ==
    /\ cpu \in Workers
    /\ work_items[cpu].work = "queued"
    /\ work_items' = [work_items EXCEPT ![cpu].work = "running", ![cpu].ret = 0]
    /\ UNCHANGED <<limit_mt_num, mt_pc, nr_items, folio_pages, total_mt_num,
                   mt_copied, mt_i, mt_err, mt_faults, threads_set_ret,
                   regVars, dmaVars>>

\* a started worker runs the item loop of copy_page_work_queue_thread to its
\* end
WorkerRun(cpu, failing) ==
    /\ cpu \in Workers
    /\ work_items[cpu].work = "running"
    /\ failing \subseteq 1..work_items[cpu].num_items
    /\ mt_faults + Cardinality(failing) <= MaxCopyFailures
    /\ mt_faults' = mt_faults + Cardinality(failing)
    /\ work_items' = [work_items EXCEPT
                        ![cpu].work = "done",
                        ![cpu].ret = WorkRetLoop(1, work_items[cpu].num_items,
                                                 failing, 0)]
    /\ mt_copied' = [j \in DOMAIN mt_copied |->
                        mt_copied[j] \cup RangesCopied(work_items[cpu], failing, j)]
    /\ UNCHANGED <<limit_mt_num, mt_pc, nr_items, folio_pages, total_mt_num, mt_i,
                   mt_err, threads_set_ret, regVars, dmaVars>>

\* faulty variant: a wait for pending work only, not for work that has started
FlushWorkReturns_PendingOnly(w) == w.work # "queued"

\* flush_work returns once the work is neither queued nor running
FlushWorkReturns(w) == w.work \notin {"queued", "running"}

\* the wait loop, one iteration: flush_work, then err = -EAGAIN if ret is set
MtFlush ==
    /\ mt_pc = "flush"
    /\ FlushWorkReturns(work_items[mt_i])
    /\ mt_err' = IF work_items[mt_i].ret # 0 THEN 0 - EAGAIN ELSE mt_err
    /\ IF mt_i + 1 = total_mt_num
       THEN mt_i' = 0 /\ mt_pc' = "free"
       ELSE mt_i' = mt_i + 1 /\ UNCHANGED mt_pc
    /\ UNCHANGED <<limit_mt_num, nr_items, folio_pages, total_mt_num, work_items,
                   mt_copied, mt_faults, threads_set_ret, regVars, dmaVars>>

\* faulty variant: an error path that returns without the kfree loop
FreeWorkItems_Leak(w) == w

\* free_work_items: kfree(work_items[cpu]) for every cpu; kfree(NULL) does nothing
FreeWorkItems(w) ==
    [cpu \in DOMAIN w |->
        IF w[cpu].alloc = "live" THEN [w[cpu] EXCEPT !.alloc = "freed"] ELSE w[cpu]]

MtFree ==
    /\ mt_pc = "free"
    /\ work_items' = FreeWorkItems(work_items)
    /\ mt_pc' = "done"
    /\ UNCHANGED <<limit_mt_num, nr_items, folio_pages, total_mt_num, mt_copied,
                   mt_i, mt_err, mt_faults, threads_set_ret, regVars, dmaVars>>

\* the caller takes the result; the call's locals are gone
MtReturn ==
    /\ mt_pc = "done"
    /\ mt_pc' = "idle"
    /\ nr_items' = 0
    /\ folio_pages' = <<>>
    /\ total_mt_num' = 0
    /\ work_items' = <<>>
    /\ mt_copied' = <<>>
    /\ mt_i' = 0
    /\ mt_err' = 0
    /\ mt_faults' = 0
    /\ UNCHANGED <<limit_mt_num, threads_set_ret, regVars, dmaVars>>

\* every byte of pair j's destination was copied from the source.  The least
\* byte not copied, if there is one, is byte 0 or the byte right after a
\* copied range, so only those bytes are looked at.
DstEqualsSrc(j) ==
    LET size == PAGE_SIZE * folio_pages[j]
        IsCopied(b) == \E r \in mt_copied[j] : r.from <= b /\ b < r.from + r.len
    IN  \A b \in {0} \cup {r.from + r.len : r \in mt_copied[j]} :
            b < size => IsCopied(b)

InitMt ==
    /\ limit_mt_num = 4
    /\ mt_pc = "idle"
    /\ nr_items = 0
    /\ folio_pages = <<>>
    /\ total_mt_num = 0
    /\ work_items = <<>>
    /\ mt_copied = <<>>
    /\ mt_i = 0
    /\ mt_err = 0
    /\ mt_faults = 0
    /\ threads_set_ret = 0

NextMt ==
    \/ \E buf \in ThreadBufs : MtThreadsSet(buf)
    \/ \E n \in 0..MaxItems : \E pages \in FolioPageChoices(n) : CopyPageListsMt(n, pages)
    \/ \E k \in 0..total_mt_num : MtAllocWorkItems(k)
    \/ MtDispatch
    \/ \E cpu \in Workers : WorkerStart(cpu)
    \/ \E cpu \in Workers :
          \E failing \in SUBSET (1..work_items[cpu].num_items) : WorkerRun(cpu, failing)
    \/ MtFlush
    \/ MtFree
    \/ MtReturn

(***************************************************************************)
(* Specifications.                                                         *)
(***************************************************************************)
Init == InitRegistry /\ InitDma /\ InitMt

SpecRegistry == Init /\ [][NextRegistry]_vars

SpecDma == Init /\ [][NextDma]_vars

SpecMt == Init /\ [][NextMt]_vars

\* the registry driven by the control files and module exits alone, with no
\* host migration call under way
SpecControl == Init /\ [][NextControl]_vars

SpecDmaAnyProvider == Init /\ [][NextDmaAnyProvider]_vars

\* The calling thread keeps running and the hardware completes every issued
\* transfer.
FairSpecDma ==
    /\ SpecDma
    /\ WF_vars(DmaEngineStep)
    /\ \A j \in 0..(MaxFolios - 1) : WF_vars(HwComplete(j))

(***************************************************************************)
(* Registry claims.                                                        *)
(***************************************************************************)

\* C1: a reader that captured the active descriptor and is inside its
\* read-side critical section never transfers through a destroyed descriptor:
\* the deferred-free callback of a removed descriptor has not run while a
\* reader that captured it is still inside, whatever stop_offloading() does
\* meanwhile.
C1_RegistrySafety ==
    /\ ~fault
    /\ \A r \in Readers :
          rd_pc[r] \in {"cs", "xfer"} /\ rd_cap[r] # 0 => rd_cap[r] \notin reclaimed

\* a reader finished its transfer through a descriptor that stop_offloading()
\* removed meanwhile and whose destruction is still deferred
C1_Witness ==
    \E r \in Readers :
        /\ rd_pc[r] = "xfer" /\ rd_cap[r] # 0 /\ cur_gen # rd_cap[r]
        /\ \E e \in retired : e.g = rd_cap[r] /\ r \in e.waiting

C3_FlagOnlyWhileActive == dispatch_to_offc = 1 => ActiveInstalled

\* C4: when the exit routine of a backend that was active at its start
\* returns, that backend is no longer the active descriptor and the dispatch
\* flag is cleared.
C4_ExitUninstalls ==
    [][\A b \in Backends :
          (pc[b] = "exit_remove" /\ pc'[b] = "unloaded" /\ exit_active[b])
          => (migrator'.name # b /\ dispatch_to_offc' = 0)]_regVars

(***************************************************************************)
(* DMA engine claims.                                                      *)
(***************************************************************************)

\* C5: every call of folios_copy_dma_parallel eventually returns, given that
\* the hardware completes every submitted transfer.
C5_TransferTerminates == (dma_pc = "alloc_channels") ~> (dma_pc = "done")

\* C6: whenever folios_copy_dma_parallel returns, it returns 0, whatever
\* allocation, channel request or per-pair step failed.
C6_AlwaysSuccess == dma_pc = "done" => dma_ret = <<0>>

\* a call returned after a pair's submit failed and another pair went through
\* the hardware
C6_Witness ==
    /\ dma_pc = "done" /\ dma_ret = <<0>> /\ failed > 0
    /\ \E j \in Pairs : outcome[j] = "submit"
    /\ \E j \in Pairs : outcome[j] = "ok"

\* C7: a pair whose mapping, preparation or submit fails is copied at once by
\* the synchronous copy, alone, and leaves the in-flight counters as they
\* were; when the call returns every pair has been copied exactly once, by
\* the hardware exactly when all its steps succeeded, and the fallback count
\* is the number of pairs with a failed step.
C7_PerUnitIsolation ==
    [][/\ (dma_pc = "submit" /\ dma_cur' = dma_cur + 1 /\ outcome'[dma_cur] # "ok") =>
            /\ chan_works' = chan_works
            /\ dma_via'[dma_cur] = "cpu"
            /\ dma_copies'[dma_cur] = 1
            /\ \A j \in Pairs \ {dma_cur} : dma_copies'[j] = dma_copies[j]
            /\ failed' = failed + 1
       /\ (dma_pc # "done" /\ dma_pc' = "done") =>
            \A j \in Pairs : dma_copies'[j] = 1
       /\ (dma_pc = "release" /\ dma_pc' = "done") =>
            /\ \A j \in Pairs :
                  /\ dma_via'[j] = "hw" <=> outcome'[j] = "ok"
                  /\ dma_via'[j] = "cpu" <=> outcome'[j] # "ok"
                  /\ dma_via'[j] = "hw" => hw_state'[j] = "completed"
            /\ failed' = Cardinality({j \in Pairs : outcome'[j] # "ok"})]_vars

\* a call returned in which one pair's submit failed on a channel that also
\* carried a hardware transfer
C7_Witness ==
    /\ dma_pc = "done" /\ actual_channels >= 1 /\ failed >= 1
    /\ \E j, k \in Pairs :
          /\ pair_chan[j] = pair_chan[k]
          /\ outcome[j] = "submit" /\ dma_via[j] = "cpu" /\ dma_copies[j] = 1
          /\ outcome[k] = "ok" /\ dma_via[k] = "hw" /\ dma_copies[k] = 1

(***************************************************************************)
(* CPU engine claims.                                                      *)
(***************************************************************************)
AllWorkItemsAllocated == \A cpu \in Workers : work_items[cpu].alloc # "null"

\* C8: once every work descriptor was allocated, copy_page_lists_mt returns
\* -EAGAIN exactly when some worker recorded a failure, which is exactly when
\* the copy of some item failed, and returns 0 exactly when no item failed.
C8_ResultAggregation ==
    (mt_pc = "done" /\ AllWorkItemsAllocated) =>
        /\ mt_err = 0 - EAGAIN <=> \E cpu \in Workers : work_items[cpu].ret # 0
        /\ mt_err = 0 - EAGAIN <=> mt_faults > 0
        /\ mt_err = 0 <=> mt_faults = 0

\* a batch returned -EAGAIN because the first of several items of one worker
\* failed, while another worker recorded success
C8_Witness ==
    /\ mt_pc = "done" /\ AllWorkItemsAllocated /\ mt_err = 0 - EAGAIN
    /\ \E cpu \in Workers :
          /\ work_items[cpu].ret # 0
          /\ work_items[cpu].num_items >= 2
          /\ \E j \in DOMAIN mt_copied :
                RangesCopied(work_items[cpu], {}, j) \ mt_copied[j] # {}
                /\ work_items[cpu].item_list[1].pair = j
    /\ \E cpu \in Workers : work_items[cpu].ret = 0 /\ work_items[cpu].num_items >= 1

\* C9: when copy_page_lists_mt returns 0, every byte of every pair's
\* destination equals the source byte, for every accepted worker limit.
C9_CopyCorrect ==
    (mt_pc = "done" /\ mt_err = 0) => \A j \in DOMAIN mt_copied : DstEqualsSrc(j)

\* C10: if the allocation of a work descriptor fails, the call returns
\* -ENOMEM, no worker is queued or run, no byte is copied, and at the return
\* every descriptor that had been allocated is freed.
C10_AllOrNothing ==
    (mt_pc \in {"free", "done"} /\ ~AllWorkItemsAllocated) =>
        /\ mt_err = 0 - ENOMEM
        /\ \A cpu \in Workers : work_items[cpu].work = "none"
        /\ \A j \in DOMAIN mt_copied : mt_copied[j] = {}
        /\ mt_pc = "done" => \A cpu \in Workers : work_items[cpu].alloc # "live"

\* a call returned -ENOMEM after some descriptors had been allocated
C10_Witness ==
    /\ mt_pc = "done" /\ mt_err = 0 - ENOMEM /\ nr_items > 0
    /\ \E cpu \in Workers : work_items[cpu].alloc = "freed"
    /\ \E cpu \in Workers : work_items[cpu].alloc = "null"

(***************************************************************************)
(* Tuning knobs and control toggles.                                       *)
(***************************************************************************)

\* writes to nr_dma_chan whose value is below 1, above MAX_DMA_CHANNELS, or
\* not a number
ChanBufsOutOfRange == {<<"0">>, <<"1", "7">>, <<"-", "1">>, <<"x">>}

\* C11: a write to nr_dma_chan of a value outside [1, 16], or of something
\* that is not a number, is rejected (an error is returned) and leaves
\* nr_dma_chan as it was; a write of a value inside [1, 16] stores it.
C11_ChanCountRejected ==
    [][/\ \A buf \in ChanBufsOutOfRange :
             NrDmaChanSet(buf) => (nr_dma_chan' = nr_dma_chan /\ chan_set_ret' < 0)
       /\ \A n \in 1..MaxChan :
             NrDmaChanSet(<<DigitStr[n + 1]>>) => nr_dma_chan' = n
       /\ NrDmaChanSet(<<"1", "6">>) => nr_dma_chan' = MAX_DMA_CHANNELS]_vars

\* writes to the threads knob whose value is below 1, above
\* MAX_NUM_COPY_THREADS, or not an unsigned number
ThreadBufsOutOfRange == {<<"0">>, <<"6", "5">>, <<"-", "1">>, <<"x">>}

\* C12: a write to the threads knob stores the written value in limit_mt_num
\* exactly when it is an integer in [1, 64]; every other write returns an
\* error and leaves limit_mt_num as it was; limit_mt_num is in [1, 64] in
\* every reachable state.  (A store is the only step that changes the knob
\* or the store's return value, and what it leaves as it was satisfies the
\* property for every input, so only the steps changing one of them are
\* looked at.)
C12_ThreadsKnob ==
    /\ [](limit_mt_num \in 1..MAX_NUM_COPY_THREADS)
    /\ [][(limit_mt_num' # limit_mt_num \/ threads_set_ret' # threads_set_ret) =>
            /\ \A buf \in ThreadBufsOutOfRange :
                  \/ limit_mt_num' = limit_mt_num /\ threads_set_ret' < 0
                  \/ ~MtThreadsSet(buf)
            /\ \A n \in 1..MaxThreads :
                  \/ limit_mt_num' = n /\ threads_set_ret' = 1
                  \/ ~MtThreadsSet(<<DigitStr[n + 1]>>)
            /\ \/ limit_mt_num' = MAX_NUM_COPY_THREADS /\ threads_set_ret' = 2
               \/ ~MtThreadsSet(<<"6", "4">>)]_vars

\* the largest value was stored and a later write was rejected as out of
\* range without changing it
C12_Witness ==
    limit_mt_num = MAX_NUM_COPY_THREADS /\ threads_set_ret = 0 - EINVAL

\* the writes to backend b's toggle that ask for nothing new: the value its
\* flag already has, or an integer other than 0 and 1
ToggleNoops(b) ==
    {<<"2">>, <<"-", "1">>}
    \cup (IF is_dispatching[b] = 1 THEN {<<"1">>, <<"1", "\n">>} ELSE {<<"0">>})

\* C13: for each backend, a write of 1 while its flag is 1, of 0 while its
\* flag is 0, or of an integer other than 0 and 1, enters neither
\* start_offloading nor stop_offloading, leaves the backend's flag, the active
\* descriptor and the dispatch flag as they were, and returns no error.
C13_ToggleIdempotent ==
    [][\A b \in Backends : \A buf \in ToggleNoops(b) :
          OffloadingSet(b, buf) =>
              /\ pc' = pc
              /\ migratecfg_mutex' = migratecfg_mutex
              /\ is_dispatching' = is_dispatching
              /\ migrator' = migrator
              /\ dispatch_to_offc' = dispatch_to_offc
              /\ sysfs_ret' >= 0]_vars

\* the last store found its backend already enabled: the backend is still
\* the active descriptor, the dispatch flag is still 1 and the store
\* returned a byte count
C13_Witness ==
    /\ toggle_log = "migration offloading is already ON"
    /\ sysfs_ret = SizeofInt
    /\ dispatch_to_offc = 1
    /\ \E b \in Backends :
          is_dispatching[b] = 1 /\ migrator.name = b /\ pc[b] = "idle"

\* get_active_migrator_name(): return migrator.name
GetActiveMigratorName == migrator.name

\* C15: get_active_migrator_name() returns the installed backend's name while
\* a backend is installed, and an absent or empty result while none is, as in
\* the initial state before any start_offloading().
C15_ActiveName ==
    /\ cur_gen # 0 => GetActiveMigratorName \in Backends
    /\ cur_gen = 0 => GetActiveMigratorName \in {NULL, ""}

\* both backends are loaded and no store or exit routine is under way
TogglesQuiescent == \A b \in Backends : loaded[b] /\ pc[b] = "idle"

\* C22: with both backends loaded, after any sequence of writes to the two
\* toggles a backend's is_dispatching is 1 exactly when that backend is the
\* active descriptor, so at most one backend reports enabled; and a
\* stop_offloading() made for backend A, by its toggle or its exit routine,
\* neither removes backend B's descriptor nor clears the dispatch flag while
\* B is active.
C22_ToggleConsistency ==
    /\ [](TogglesQuiescent =>
            /\ \A b \in Backends : is_dispatching[b] = 1 <=> migrator.name = b
            /\ Cardinality({b \in Backends : is_dispatching[b] = 1}) <= 1)
    /\ [][\A a \in Backends :
            (pc[a] \in {"stop_update", "stop_cmpxchg"} /\ pc'[a] # pc[a]
               /\ ActiveInstalled /\ migrator.name # a) =>
                (migrator' = migrator /\ dispatch_to_offc' = dispatch_to_offc)]_vars

(***************************************************************************)
(* Batches and partitions.                                                 *)
(***************************************************************************)

\* C14: a batch of size 0 returns success with no side effects on either
\* engine: copy_page_lists_mt dispatches no worker and returns 0 whatever
\* the worker limit, folios_copy_dma_parallel acquires no channel and
\* returns 0 whatever the channel count; no byte is copied.
C14_EmptyBatch ==
    /\ (mt_pc # "idle" /\ nr_items = 0) =>
          /\ \A cpu \in DOMAIN work_items : work_items[cpu].work = "none"
          /\ mt_pc = "done" => mt_err = 0
    /\ (dma_pc # "idle" /\ folios_cnt_total = 0) =>
          /\ actual_channels = 0 /\ chan_held = 0
          /\ dma_pc = "done" => dma_ret = <<0>>

\* C16: the call of the DMA engine blocks in every ordering of submissions
\* and completion callbacks: the in-flight counters are never negative, a
\* channel's completion signal is raised only while no transfer submitted on
\* that channel is in flight, and the call has not reached its release loop
\* or returned while a submitted transfer is in flight or a counter is
\* nonzero.
C16_Blocking ==
    /\ \A c \in DOMAIN chan_works :
          /\ chan_works[c].active_transfers >= 0
          /\ chan_works[c].done > 0 =>
                \A j \in Pairs : pair_chan[j] = c => hw_state[j] # "submitted"
    /\ dma_pc \in {"release", "done"} =>
          /\ \A j \in Pairs : hw_state[j] # "submitted"
          /\ \A c \in DOMAIN chan_works : chan_works[c].active_transfers = 0

\* the partitioning of a batch whose descriptors were all allocated is done
Partitioned == mt_pc \in {"flush", "free", "done"} /\ AllWorkItemsAllocated

\* C17: for N >= T >= 1 Policy B is used (every item is a whole pair, none a
\* chunk); worker i holds exactly floor(N/T) + (1 if i < N mod T) pairs, a
\* contiguous block of the batch in batch order following the blocks of the
\* workers before it, so every pair belongs to exactly one worker; every one
\* of the T workers was queued.
C17_PolicyBPartition ==
    (Partitioned /\ total_mt_num >= 1 /\ nr_items >= total_mt_num) =>
        LET q == nr_items \div total_mt_num
            r == nr_items % total_mt_num
            first(i) == i * q + Min(i, r)
        IN  /\ \A i \in Workers :
                  /\ work_items[i].work \in {"queued", "running", "done"}
                  /\ work_items[i].num_items = q + (IF i < r THEN 1 ELSE 0)
                  /\ Len(work_items[i].item_list) = work_items[i].num_items
                  /\ \A k \in 1..Len(work_items[i].item_list) :
                        /\ work_items[i].item_list[k].pair = first(i) + k - 1
                        /\ work_items[i].item_list[k].from = 0
                        /\ work_items[i].item_list[k].len =
                              PAGE_SIZE * folio_pages[first(i) + k - 1]
            /\ \A j \in 0..(nr_items - 1) :
                  Cardinality({<<i, k>> \in Workers \X (1..nr_items) :
                                  /\ k <= Len(work_items[i].item_list)
                                  /\ work_items[i].item_list[k].pair = j}) = 1

\* three pairs were split over two workers as 2 + 1
C17_Witness ==
    /\ Partitioned /\ nr_items = 3 /\ total_mt_num = 2
    /\ Len(work_items[0].item_list) = 2 /\ Len(work_items[1].item_list) = 1
    /\ work_items[1].item_list[1].pair = 2
    /\ \A i \in Workers : work_items[i].work \in {"queued", "running", "done"}

\* every pair's size is a multiple of the worker count
SizesDivisible ==
    \A j \in 0..(nr_items - 1) : (PAGE_SIZE * folio_pages[j]) % total_mt_num = 0

\* C18: for N < T with every pair's size divisible by T, Policy A is used:
\* every worker i holds exactly N items, its item for pair k being the byte
\* range [i * size_k / T, (i + 1) * size_k / T) of that pair; the T chunks
\* of a pair are pairwise disjoint and together cover the whole pair.
C18_PolicyAChunks ==
    (Partitioned /\ nr_items < total_mt_num /\ SizesDivisible) =>
        LET size(j) == PAGE_SIZE * folio_pages[j]
            chunk(i, j) == work_items[i].item_list[j + 1]
        IN  /\ \A i \in Workers :
                  /\ work_items[i].work \in {"queued", "running", "done"}
                  /\ work_items[i].num_items = nr_items
                  /\ Len(work_items[i].item_list) = nr_items
                  /\ \A j \in 0..(nr_items - 1) :
                        /\ chunk(i, j).pair = j
                        /\ chunk(i, j).from * total_mt_num = i * size(j)
                        /\ (chunk(i, j).from + chunk(i, j).len) * total_mt_num
                              = (i + 1) * size(j)
            /\ \A j \in 0..(nr_items - 1) :
                  /\ \A i1, i2 \in Workers :
                        i1 < i2 =>
                            chunk(i1, j).from + chunk(i1, j).len <= chunk(i2, j).from
                  /\ chunk(0, j).from = 0
                  /\ chunk(total_mt_num - 1, j).from
                        + chunk(total_mt_num - 1, j).len = size(j)
                  /\ \A i \in Workers :
                        i > 0 => chunk(i, j).from
                                    = chunk(i - 1, j).from + chunk(i - 1, j).len

\* three pairs of 4096 bytes were copied by four workers in chunks of 1024
\* bytes, and every destination equals its source
C18_Witness ==
    /\ mt_pc = "done" /\ mt_err = 0 /\ AllWorkItemsAllocated
    /\ nr_items = 3 /\ total_mt_num = 4
    /\ \A j \in 0..2 : folio_pages[j] = 1 /\ DstEqualsSrc(j)
    /\ work_items[3].item_list[3] = [pair |-> 2, from |-> 3072, len |-> 1024]

\* STEP 1 of a call that acquired channels has attempted every pair
AllPairsAttempted ==
    /\ dma_pc \in {"issue", "wait", "release", "done"}
    /\ folios_cnt_total > 0 /\ dma_cur = folios_cnt_total

\* the number of pairs attempted on channel c
PairsOnChannel(c) == Cardinality({j \in Pairs : pair_chan[j] = c})

\* C19: for a batch of N pairs and a requested channel count C the call asks
\* for min(C, N) channels and goes on with the k channels granted before the
\* first refusal, k <= min(C, N); for k >= 1 the pair at batch position j is
\* attempted on channel j mod k, so the numbers of pairs of two channels
\* differ by at most 1, and the fallback count is 0 when every hardware step
\* succeeds.
C19_ClampRoundRobin ==
    /\ [](dma_pc # "idle" =>
            /\ thread_count <= folios_cnt_total
            /\ actual_channels <= thread_count
            /\ dma_pc \in {"alloc_works", "submit", "issue", "wait", "release"} =>
                  (actual_channels >= 1 /\ chan_held = actual_channels)
            /\ \A j \in Pairs :
                  pair_chan[j] # -1 => pair_chan[j] = j % actual_channels
            /\ AllPairsAttempted =>
                  /\ \A j \in Pairs : pair_chan[j] = j % actual_channels
                  /\ \A c, d \in Channels :
                        PairsOnChannel(c) - PairsOnChannel(d) \in {-1, 0, 1}
                  /\ (\A j \in Pairs : outcome[j] = "ok") => failed = 0)
    /\ [][(dma_pc = "idle" /\ dma_pc' = "alloc_channels") =>
            thread_count' = IF nr_dma_chan < folios_cnt_total'
                            THEN nr_dma_chan ELSE folios_cnt_total']_vars

\* 16 channels were requested for three pairs, the hardware granted two: the
\* pairs went to channels 0, 1, 0, all through the hardware, no fallback
C19_Witness ==
    /\ dma_pc = "done" /\ AllPairsAttempted
    /\ nr_dma_chan = MAX_DMA_CHANNELS /\ folios_cnt_total = 3
    /\ thread_count = 3 /\ actual_channels = 2
    /\ pair_chan = [j \in 0..2 |-> j % 2]
    /\ \A j \in Pairs : hw_state[j] = "completed"
    /\ failed = 0

\* C20: when the channel array cannot be allocated, no channel is granted,
\* or the work records cannot be allocated, the call ends there: no pair was
\* submitted to the hardware, every pair of the batch was copied exactly once
\* by the ordinary copy path, every channel that had been acquired is
\* released, and the call returns 0.
C20_WholeBatchFallback ==
    [][(\/ DmaAllocChannels(FALSE)
        \/ DmaRequestChannels(0)
        \/ DmaAllocWorks(FALSE)) =>
          /\ dma_pc' = "done"
          /\ dma_ret' = <<0>>
          /\ chan_held' = 0
          /\ \A j \in Pairs :
                /\ hw_state'[j] = "none"
                /\ dma_copies'[j] = 1
                /\ dma_via'[j] = "batch"]_vars

\* two channels were granted for three pairs, the work records could not be
\* allocated: both channels are released, the three pairs were copied by
\* the ordinary path and the call returned 0
C20_Witness ==
    /\ dma_pc = "done" /\ dma_ret = <<0>>
    /\ folios_cnt_total = 3 /\ actual_channels = 2 /\ chan_held = 0
    /\ chan_works = <<>>
    /\ \A j \in Pairs :
          hw_state[j] = "none" /\ dma_copies[j] = 1 /\ dma_via[j] = "batch"

\* the workers queued for this batch that have not finished executing
WorkersUnfinished ==
    {cpu \in DOMAIN work_items : work_items[cpu].work \in {"queued", "running"}}

\* C21: in every interleaving of the workers, copy_page_lists_mt reaches its
\* kfree loop and returns only when every worker queued for the batch has
\* finished, no descriptor of an unfinished worker is freed, and the wait
\* loop reads a worker's ret flag only after that worker has finished.
C21_Join ==
    /\ [](/\ mt_pc \in {"free", "done"} => WorkersUnfinished = {}
          /\ \A cpu \in WorkersUnfinished : work_items[cpu].alloc = "live")
    /\ [][(mt_pc = "flush" /\ (mt_i' # mt_i \/ mt_pc' # "flush")) =>
            mt_i \notin WorkersUnfinished]_vars

\* the wait loop has taken the result of worker 0 and is blocked on a worker
\* that is still executing, while a later worker has already finished and
\* another has not started
C21_Witness ==
    /\ mt_pc = "flush" /\ mt_i >= 1
    /\ work_items[mt_i].work = "running"
    /\ \E cpu \in Workers : cpu > mt_i /\ work_items[cpu].work = "done"
    /\ \E cpu \in Workers : cpu > mt_i /\ work_items[cpu].work = "queued"

====
